---- MODULE Spec2Model ----
(***************************************************************************)
(* The iterate entry point of deepqc (src/deepqc/iterate/main.py) and the  *)
(* resumable SCF + training controller it drives.                          *)
(*                                                                         *)
(* main() is modelled from its code (lines 90-95) and its docstring        *)
(* (lines 13-88).  make_iterate, run and restart live in                   *)
(* deepqc/iterate/iterate.py, which is not among the source files; their   *)
(* record / skip protocol is modelled from the design document.            *)
(* preprocess() and train() are modelled from src/deepqc/train/train.py.   *)
(***************************************************************************)
EXTENDS Integers, Sequences, FiniteSets, TLC

\* Largest n_iter the configurations range over.
MaxIter == 2

\* Largest n_epoch and display_epoch train() is called with.
MaxEpoch == 3
MaxDisplay == 3

\* Number of successive preprocess() calls on one model.
MaxPreCalls == 2

\* OS processes that may execute main().  Spec lets only "main" act: a
\* single logical thread of control per run.
Procs == {"main", "other"}

VARIABLES
    cfg,          \* the keyword arguments main() is invoked with
    share,        \* files present in $share_folder
    recordFile,   \* whether $workdir/RECORD exists
    record,       \* content of $workdir/RECORD: sequence of completed stages
    dirs,         \* stage directories present under $workdir
    pc,           \* per process: position in main / run / restart
    calls,        \* per process: the calls main() has made so far
    err,          \* per process: the exception that ended the invocation
    loaded,       \* per process: in-memory copy of the record
    pos,          \* per process: index into the plan of the stage at hand
    cur,          \* per process: the stage being executed
    executed,     \* per process: stages started in this invocation, in order
    sawRecord,    \* history: did RECORD exist when main() tested it
    recAtStart,   \* history: record when this invocation started
    dirsAtStart,  \* history: dirs when this invocation started
    prevPc,       \* history: how the previous invocation ended
    prevCur,      \* history: stage at hand when the previous invocation ended
    faulty,       \* environment: processes may still be killed, tasks may fail
    hp,           \* Trainer: the options of preprocess / train, the reader's statistics
    model,        \* Trainer: the in-memory model
    tpc,          \* Trainer: position in train()
    epoch,        \* Trainer: the loop variable of train()
    ckpt,         \* Trainer: content of ckpt_file on disk (<<>>: no file)
    events,       \* Trainer: evaluations, reports and saves so far, in order
    ret,          \* Trainer: what train() returned
    preCalls,     \* history: preprocess() calls made on the model
    pre1          \* history: the model after the first preprocess() call

fsVars    == <<share, recordFile, record, dirs>>
procVars  == <<pc, calls, err, loaded, pos, cur, executed>>
histVars  == <<sawRecord, recAtStart, dirsAtStart, prevPc, prevCur>>
ctlVars   == <<cfg, share, recordFile, record, dirs, pc, calls, err, loaded,
               pos, cur, executed, sawRecord, recAtStart, dirsAtStart,
               prevPc, prevCur>>
trainVars == <<hp, model, tpc, epoch, ckpt, events, ret, preCalls, pre1>>
vars      == <<ctlVars, faulty, trainVars>>

----------------------------------------------------------------------------
(* Stages, the iteration plan and the work directory layout *)

Stage(tag, i, s) == <<tag, i, s>>
NoStage == <<"none", 0, "none">>

StageNames == <<"scf", "train">>

\* Variant: the train stage placed before the scf stage.
PerIterTrainFirst(i) ==
    <<Stage("iter", i, StageNames[2]), Stage("iter", i, StageNames[1])>>

\* One numbered iteration: its scf stage, then its train stage.
PerIter(i) == <<Stage("iter", i, StageNames[1]), Stage("iter", i, StageNames[2])>>

\* The extra initialization iteration run in folder iter.init.
InitIter == <<Stage("init", 0, StageNames[1]), Stage("init", 0, StageNames[2])>>

\* Variant: one iteration more, 0 .. n.
IterIndicesInclusive(n) == 0 .. n

\* Variant: one iteration fewer, 0 .. n - 2.
IterIndicesSkipLast(n) == 0 .. (n - 2)

\* Indices of the numbered iterations done for n_iter = n.
IterIndices(n) == 0 .. (n - 1)

RECURSIVE Numbered(_, _)
Numbered(i, n) ==
    IF i \notin IterIndices(n) THEN <<>> ELSE PerIter(i) \o Numbered(i + 1, n)

\* Variant: the init iteration is run whatever init_model is.
PlanOfInitAlways(c) == InitIter \o Numbered(0, c.n_iter)

\* init_model = False: the init iteration is prepended to the plan.
PlanOf(c) ==
    (IF c.init_model THEN <<>> ELSE InitIter) \o Numbered(0, c.n_iter)

Plan == PlanOf(cfg)

Range(s) == {s[k] : k \in 1 .. Len(s)}

Digits == <<"0", "1", "2", "3", "4", "5", "6", "7", "8", "9">>

\* Variant: the iteration number written without zero padding.
IterFolderUnpadded(st) ==
    IF st[1] = "init"
    THEN <<"iter", ".", "init">>
    ELSE <<"iter", ".", Digits[(st[2] % 10) + 1]>>

\* "iter.%02d" % i, or "iter.init".
IterFolder(st) ==
    IF st[1] = "init"
    THEN <<"iter", ".", "init">>
    ELSE <<"iter", ".", Digits[((st[2] \div 10) % 10) + 1], Digits[(st[2] % 10) + 1]>>

StageFolder(st) == IF st[3] = "scf" THEN "00.scf" ELSE "01.train"

StageDir(st) == <<IterFolder(st), StageFolder(st)>>

----------------------------------------------------------------------------
(* Configuration and the share folder *)

Configs ==
    [n_iter : 0 .. MaxIter,
     init_model : BOOLEAN,
     systems_train : {"given", "default"},
     scf_input : {"True", "False", "dict"}]

ShareFiles == {"systems_train.raw", "scf_input.yaml"}

\* Variant: the default systems file is not checked.
RequiredScfOnly(c) ==
    IF c.scf_input = "True" THEN {"scf_input.yaml"} ELSE {}

\* Files make_iterate requires to exist already.
Required(c) ==
    (IF c.systems_train = "default" THEN {"systems_train.raw"} ELSE {})
    \cup (IF c.scf_input = "True" THEN {"scf_input.yaml"} ELSE {})

\* Files make_iterate writes into the share folder.
Materialized(c) ==
    IF c.scf_input = "dict" THEN {"scf_input.yaml"} ELSE {}

MissingRequired == Required(cfg) \ share /= {}

----------------------------------------------------------------------------
(* The Trainer: preprocess() and train() of src/deepqc/train/train.py *)

\* What g_reader.compute_data_stat() returns: (davg, dstd).
DataStats == {[davg |-> 2, dstd |-> 4], [davg |-> 5, dstd |-> 16]}

\* The options of preprocess() and train() that the properties depend on.
\* prefit_ridge, stop_lr and the optimizer settings keep their defaults.
HyperParams ==
    [n_epoch : 0 .. MaxEpoch,
     display_epoch : 1 .. MaxDisplay,
     ckpt_file : {"", "model.pth"},
     preshift : BOOLEAN,
     prescale : BOOLEAN,
     prescale_sqrt : BOOLEAN,
     prescale_clip : {0, 3},
     prefit : BOOLEAN,
     stat : DataStats]

\* A model as constructed: no shift, unit scale, no prefit, untrained.
\* `steps` counts the optimization epochs applied to the parameters.
NewModel ==
    [shift |-> 0, scale |-> 1,
     weight |-> <<"none", 0, 0, 0>>, bias |-> <<"none", 0, 0, 0>>,
     steps |-> 0]

\* np.sqrt on the statistics, to the integer below.
Sqrt(x) == CHOOSE r \in 0 .. x : r * r <= x /\ x < (r + 1) * (r + 1)

\* ndarray.clip(a_min): values below a_min are raised to it.
Clip(x, lo) == IF x < lo THEN lo ELSE x

\* Lines 43, 47-48: the shift preprocess() works with.
PreShift(m, h) == IF h.preshift THEN h.stat.davg ELSE m.shift

\* Variant: the scale is derived from the scale the model already has.
PreScaleFromModel(m, h) ==
    IF h.prescale
    THEN LET s0 == m.scale * h.stat.dstd
             s1 == IF h.prescale_sqrt THEN Sqrt(s0) ELSE s0
         IN  IF h.prescale_clip /= 0 THEN Clip(s1, h.prescale_clip) ELSE s1
    ELSE m.scale

\* Lines 44, 49-54: the scale preprocess() works with.
PreScale(m, h) ==
    IF h.prescale
    THEN LET s0 == h.stat.dstd
             s1 == IF h.prescale_sqrt THEN Sqrt(s0) ELSE s0
         IN  IF h.prescale_clip /= 0 THEN Clip(s1, h.prescale_clip) ELSE s1
    ELSE m.scale

\* g_reader.compute_prefitting(shift, scale, ridge_alpha): a function of the
\* reader's data and its three arguments (ridge_alpha = prefit_ridge = 1).
ComputePrefitting(shift, scale) ==
    [weight |-> <<"weight", shift, scale, 1>>, bias |-> <<"bias", shift, scale, 1>>]

\* preprocess(model, g_reader, ...), lines 40-58.
Preprocessed(m, h) ==
    LET shift == PreShift(m, h)
        scale == PreScale(m, h)
        m1 == IF h.preshift \/ h.prescale
              THEN [m EXCEPT !.shift = shift, !.scale = scale]
              ELSE m
        fit == ComputePrefitting(shift, scale)
    IN  IF h.prefit
        THEN [m1 EXCEPT !.weight = fit.weight, !.bias = fit.bias]
        ELSE m1

\* Variant: the display test is one epoch early.
DisplayDueEarly(e, d) == (e + 1) % d = 0

\* Line 99: if epoch % display_epoch == 0.
DisplayDue(e, d) == e % d = 0

\* Variant: the trained model is returned.
TrainResultModel(m) == <<"model", m>>

\* train() ends with its loop: there is no return statement, so the call
\* evaluates to None.
TrainResult(m) == <<"None">>

\* A model restored from a file carries the normalization it was saved with.
LoadedModel == [NewModel EXCEPT !.shift = 1, !.scale = 9]

Models == {NewModel, LoadedModel}

\* No train() call in progress, nothing on disk.
TrainerFresh ==
    /\ model \in Models
    /\ tpc = "new"
    /\ epoch = 0
    /\ ckpt = <<>>
    /\ events = <<>>
    /\ ret = <<"unset">>
    /\ preCalls = 0
    /\ pre1 = model

\* The Trainer as the controller's specifications see it: not called.
TrainerIdle ==
    /\ hp = [n_epoch |-> 0, display_epoch |-> 1, ckpt_file |-> "model.pth",
             preshift |-> TRUE, prescale |-> FALSE, prescale_sqrt |-> FALSE,
             prescale_clip |-> 0, prefit |-> TRUE,
             stat |-> [davg |-> 2, dstd |-> 4]]
    /\ model = NewModel
    /\ TrainerFresh

----------------------------------------------------------------------------
Terminal == {"idle", "done", "error", "crashed"}

CtlInit ==
    /\ cfg \in Configs
    /\ share \in SUBSET ShareFiles
    /\ recordFile = FALSE
    /\ record = <<>>
    /\ dirs = {}
    /\ pc = [p \in Procs |-> "idle"]
    /\ calls = [p \in Procs |-> <<>>]
    /\ err = [p \in Procs |-> "none"]
    /\ loaded = [p \in Procs |-> <<>>]
    /\ pos = [p \in Procs |-> 0]
    /\ cur = [p \in Procs |-> NoStage]
    /\ executed = [p \in Procs |-> <<>>]
    /\ sawRecord = [p \in Procs |-> FALSE]
    /\ recAtStart = [p \in Procs |-> <<>>]
    /\ dirsAtStart = [p \in Procs |-> {}]
    /\ prevPc = [p \in Procs |-> "idle"]
    /\ prevCur = [p \in Procs |-> NoStage]

\* The controller before its first invocation; no Trainer call in progress.
Init == CtlInit /\ faulty = TRUE /\ TrainerIdle

\* A new process enters main() with n_iter = n, the other arguments as before.
Enter(p, n) ==
    /\ pc[p] \in Terminal
    /\ cfg' = [cfg EXCEPT !.n_iter = n]
    /\ pc' = [pc EXCEPT ![p] = "main"]
    /\ calls' = [calls EXCEPT ![p] = <<>>]
    /\ err' = [err EXCEPT ![p] = "none"]
    /\ loaded' = [loaded EXCEPT ![p] = <<>>]
    /\ pos' = [pos EXCEPT ![p] = 0]
    /\ cur' = [cur EXCEPT ![p] = NoStage]
    /\ executed' = [executed EXCEPT ![p] = <<>>]
    /\ sawRecord' = [sawRecord EXCEPT ![p] = FALSE]
    /\ recAtStart' = [recAtStart EXCEPT ![p] = record]
    /\ dirsAtStart' = [dirsAtStart EXCEPT ![p] = dirs]
    /\ prevPc' = [prevPc EXCEPT ![p] = pc[p]]
    /\ prevCur' = [prevCur EXCEPT ![p] = cur[p]]
    /\ UNCHANGED <<faulty, trainVars, fsVars>>

\* The user runs, or re-runs, the same command.
Invoke(p) == Enter(p, cfg.n_iter)

\* The user re-runs the command with another n_iter.
Reconfigure(p) ==
    /\ \A q \in Procs : pc[q] \in Terminal
    /\ \E n \in 0 .. MaxIter : n /= cfg.n_iter /\ Enter(p, n)

\* iterate = make_iterate(*args, **kwargs)
MakeIterate(p) ==
    /\ pc[p] = "main"
    /\ calls' = [calls EXCEPT ![p] = Append(@, "make_iterate")]
    /\ IF MissingRequired
       THEN /\ pc' = [pc EXCEPT ![p] = "error"]
            /\ err' = [err EXCEPT ![p] = "FileNotFoundError"]
            /\ share' = share
       ELSE /\ pc' = [pc EXCEPT ![p] = "built"]
            /\ err' = err
            /\ share' = share \cup Materialized(cfg)
    /\ UNCHANGED <<faulty, trainVars, cfg, recordFile, record, dirs, loaded, pos, cur, executed,
                   histVars>>

\* Variant: the record file is never tested.
MainCallAlwaysRun(exists) == "run"

\* Variant: the test inverted.
MainCallSwapped(exists) == IF exists THEN "run" ELSE "restart"

\* if os.path.exists(iterate.record_file): restart() else: run()
MainCall(exists) == IF exists THEN "restart" ELSE "run"

MainBranch(p) ==
    /\ pc[p] = "built"
    /\ sawRecord' = [sawRecord EXCEPT ![p] = recordFile]
    /\ calls' = [calls EXCEPT ![p] = Append(@, MainCall(recordFile))]
    /\ pc' = [pc EXCEPT ![p] = MainCall(recordFile)]
    /\ UNCHANGED <<faulty, trainVars, cfg, fsVars, err, loaded, pos, cur, executed, recAtStart,
                   dirsAtStart, prevPc, prevCur>>

----------------------------------------------------------------------------
(* The controller: run, restart and the per-stage record protocol *)

\* Variant: the record is never checked against the plan.
CorruptIgnored(rec, plan) == FALSE

\* The record references a stage that is not in the iteration plan.
Corrupt(rec, plan) == \E k \in 1 .. Len(rec) : rec[k] \notin Range(plan)

\* Variant: no stage is ever taken as recorded.
RecordedNever(rec, st) == FALSE

\* Skip test of the execution algorithm: the stage is already recorded.
Recorded(rec, st) == st \in Range(rec)

\* restart(): read the record, refuse a record inconsistent with the plan,
\* otherwise walk the plan from its start, skipping what is recorded.
Restart(p) ==
    /\ pc[p] = "restart"
    /\ IF Corrupt(record, Plan)
       THEN /\ pc' = [pc EXCEPT ![p] = "error"]
            /\ err' = [err EXCEPT ![p] = "CorruptRecord"]
            /\ UNCHANGED <<loaded, pos>>
       ELSE /\ pc' = [pc EXCEPT ![p] = "loop"]
            /\ loaded' = [loaded EXCEPT ![p] = record]
            /\ pos' = [pos EXCEPT ![p] = 1]
            /\ err' = err
    /\ UNCHANGED <<faulty, trainVars, cfg, fsVars, calls, cur, executed, histVars>>

\* Variant: run starts at the second stage of the plan.
RunFromSecond(p) ==
    /\ pc[p] = "run"
    /\ recordFile' = TRUE
    /\ record' = <<>>
    /\ loaded' = [loaded EXCEPT ![p] = <<>>]
    /\ pos' = [pos EXCEPT ![p] = 2]
    /\ pc' = [pc EXCEPT ![p] = "loop"]
    /\ UNCHANGED <<faulty, trainVars, cfg, share, dirs, calls, err, cur, executed, histVars>>

\* run(): create the (empty) progress record, then proceed as restart does.
Run(p) ==
    /\ pc[p] = "run"
    /\ recordFile' = TRUE
    /\ record' = <<>>
    /\ loaded' = [loaded EXCEPT ![p] = <<>>]
    /\ pos' = [pos EXCEPT ![p] = 1]
    /\ pc' = [pc EXCEPT ![p] = "loop"]
    /\ UNCHANGED <<faulty, trainVars, cfg, share, dirs, calls, err, cur, executed, histVars>>

\* Step 1 of the execution algorithm: a recorded stage is skipped.
SkipStage(p) ==
    /\ pc[p] = "loop"
    /\ pos[p] <= Len(Plan)
    /\ Recorded(loaded[p], Plan[pos[p]])
    /\ pos' = [pos EXCEPT ![p] = @ + 1]
    /\ UNCHANGED <<faulty, trainVars, cfg, fsVars, pc, calls, err, loaded, cur, executed, histVars>>

\* Steps 2 and 3: a stage that is not recorded is delegated to the Task
\* Runner / Trainer, in its own directory iter.<NN>/<stage>.
StartStage(p) ==
    /\ pc[p] = "loop"
    /\ pos[p] <= Len(Plan)
    /\ ~Recorded(loaded[p], Plan[pos[p]])
    /\ cur' = [cur EXCEPT ![p] = Plan[pos[p]]]
    /\ executed' = [executed EXCEPT ![p] = Append(@, Plan[pos[p]])]
    /\ dirs' = dirs \cup {StageDir(Plan[pos[p]])}
    /\ pc' = [pc EXCEPT ![p] = "exec"]
    /\ UNCHANGED <<faulty, trainVars, cfg, share, recordFile, record, calls, err, loaded, pos,
                   histVars>>

\* The delegated task reports success.
StageSucceed(p) ==
    /\ pc[p] = "exec"
    /\ pc' = [pc EXCEPT ![p] = "append"]
    /\ UNCHANGED <<faulty, trainVars, cfg, fsVars, calls, err, loaded, pos, cur, executed, histVars>>

\* The delegated task fails.  train() has no exception handler around its
\* epoch loop, so a Trainer failure reaches the controller, which halts.
StageFail(p) ==
    /\ pc[p] = "exec"
    /\ faulty
    /\ pc' = [pc EXCEPT ![p] = "error"]
    /\ err' = [err EXCEPT ![p] = "StageExecutionError"]
    /\ UNCHANGED <<faulty, trainVars, cfg, fsVars, calls, loaded, pos, cur, executed, histVars>>

\* Variant: the new entry is written at the head of the record.
MarkedFront(rec, st) == <<st>> \o rec

\* The record after a stage has been marked complete.
Marked(rec, st) == Append(rec, st)

\* On success the stage is appended to the record file (which the write
\* creates if need be), and the loop advances.
AppendRecord(p) ==
    /\ pc[p] = "append"
    /\ record' = Marked(record, cur[p])
    /\ recordFile' = TRUE
    /\ loaded' = [loaded EXCEPT ![p] = Append(@, cur[p])]
    /\ pos' = [pos EXCEPT ![p] = @ + 1]
    /\ pc' = [pc EXCEPT ![p] = "loop"]
    /\ UNCHANGED <<faulty, trainVars, cfg, share, dirs, calls, err, cur, executed, histVars>>

\* The plan is exhausted: run / restart return, and so does main().
Finish(p) ==
    /\ pc[p] = "loop"
    /\ pos[p] > Len(Plan)
    /\ pc' = [pc EXCEPT ![p] = "done"]
    /\ UNCHANGED <<faulty, trainVars, cfg, fsVars, calls, err, loaded, pos, cur, executed, histVars>>

\* External cancellation: the process is killed; nothing in memory survives.
Crash(p) ==
    /\ pc[p] \notin Terminal
    /\ faulty
    /\ pc' = [pc EXCEPT ![p] = "crashed"]
    /\ UNCHANGED <<faulty, trainVars, cfg, fsVars, calls, err, loaded, pos, cur, executed, histVars>>

Step(p) ==
    \/ Invoke(p)
    \/ MakeIterate(p)
    \/ MainBranch(p)
    \/ Restart(p)
    \/ Run(p)
    \/ SkipStage(p)
    \/ StartStage(p)
    \/ StageSucceed(p)
    \/ StageFail(p)
    \/ AppendRecord(p)
    \/ Finish(p)
    \/ Crash(p)

\* One controller process at a time, the configuration fixed.
Next == Step("main")

Spec == Init /\ [][Next]_vars

\* As Spec, and the command may be re-run with another n_iter.
NextCfg == Step("main") \/ Reconfigure("main")

SpecCfg == Init /\ [][NextCfg]_vars

\* The command is started in a process that has not run it yet.
Launch(p) == pc[p] = "idle" /\ Invoke(p)

\* What a process does once it is in main().
Work(p) ==
    \/ MakeIterate(p)
    \/ MainBranch(p)
    \/ Restart(p)
    \/ Run(p)
    \/ SkipStage(p)
    \/ StartStage(p)
    \/ StageSucceed(p)
    \/ StageFail(p)
    \/ AppendRecord(p)
    \/ Finish(p)
    \/ Crash(p)

\* Two invocations of the command, each started once, against the same work
\* directory; their steps interleave freely.
NextConc == \E p \in Procs : (Launch(p) \/ Work(p))

\* The configurations of the concurrent runs: one numbered iteration, every
\* input supplied, with and without the init iteration.
InitConc ==
    /\ Init
    /\ cfg.n_iter = 1
    /\ cfg.systems_train = "given"
    /\ cfg.scf_input = "False"
    /\ share = {}

SpecConc == InitConc /\ [][NextConc]_vars

\* The user runs the command again after a fatal error or a crash.
Reinvoke(p) == pc[p] \in {"idle", "error", "crashed"} /\ Invoke(p)

\* From some point on no stage attempt fails and the process is not killed:
\* only finitely many attempts fail.
Settle ==
    /\ faulty
    /\ faulty' = FALSE
    /\ UNCHANGED <<ctlVars, trainVars>>

\* The steps the program takes by itself once started.
Progress(p) ==
    \/ MakeIterate(p)
    \/ MainBranch(p)
    \/ Restart(p)
    \/ Run(p)
    \/ SkipStage(p)
    \/ StartStage(p)
    \/ StageSucceed(p)
    \/ AppendRecord(p)
    \/ Finish(p)

NextLive == Step("main") \/ Settle

\* The command is re-run after every error or crash, a started program
\* keeps running, and the failures come to an end.
Fairness ==
    /\ WF_vars(Reinvoke("main"))
    /\ WF_vars(Progress("main"))
    /\ WF_vars(Settle)

SpecLive == Init /\ [][NextLive]_vars /\ Fairness

----------------------------------------------------------------------------
(* preprocess() and train(), step by step *)

\* preprocess(model, g_reader, **options) is called on the model.
Preprocess ==
    /\ tpc = "new"
    /\ preCalls < MaxPreCalls
    /\ model' = Preprocessed(model, hp)
    /\ preCalls' = preCalls + 1
    /\ pre1' = IF preCalls = 0 THEN Preprocessed(model, hp) ELSE pre1
    /\ UNCHANGED <<ctlVars, faulty, hp, tpc, epoch, ckpt, events, ret>>

\* Lines 66-86: set-up, the evaluation and the report printed as epoch 0.
TrainBegin ==
    /\ tpc = "new"
    /\ epoch' = 0
    /\ events' = <<[kind |-> "eval", epoch |-> 0, steps |-> model.steps],
                   [kind |-> "report", epoch |-> 0, steps |-> model.steps]>>
    /\ tpc' = "loop"
    /\ UNCHANGED <<ctlVars, faulty, hp, model, ckpt, ret, preCalls, pre1>>

\* Lines 88-97: for epoch in range(1, n_epoch+1): one pass over the data,
\* the optimizer and the scheduler step.
TrainEpoch ==
    /\ tpc = "loop"
    /\ epoch < hp.n_epoch
    /\ epoch' = epoch + 1
    /\ model' = [model EXCEPT !.steps = @ + 1]
    /\ tpc' = "display"
    /\ UNCHANGED <<ctlVars, faulty, hp, ckpt, events, ret, preCalls, pre1>>

\* Lines 99-109: on a display epoch, evaluate, report and save.
TrainDisplay ==
    /\ tpc = "display"
    /\ IF DisplayDue(epoch, hp.display_epoch)
       THEN /\ events' = events \o
                   <<[kind |-> "eval", epoch |-> epoch, steps |-> model.steps],
                     [kind |-> "report", epoch |-> epoch, steps |-> model.steps]>>
                   \o (IF hp.ckpt_file /= ""
                       THEN <<[kind |-> "save", epoch |-> epoch, steps |-> model.steps]>>
                       ELSE <<>>)
            /\ ckpt' = IF hp.ckpt_file /= "" THEN <<model>> ELSE ckpt
       ELSE UNCHANGED <<events, ckpt>>
    /\ tpc' = "loop"
    /\ UNCHANGED <<ctlVars, faulty, hp, model, epoch, ret, preCalls, pre1>>

\* The range is exhausted: train() returns.
TrainReturn ==
    /\ tpc = "loop"
    /\ epoch >= hp.n_epoch
    /\ ret' = TrainResult(model)
    /\ tpc' = "done"
    /\ UNCHANGED <<ctlVars, faulty, hp, model, epoch, ckpt, events, preCalls, pre1>>

\* An error inside an epoch (device, resources) is not caught: it leaves
\* train() with nothing returned and nothing more saved.
TrainFail ==
    /\ tpc = "loop"
    /\ epoch < hp.n_epoch
    /\ tpc' = "failed"
    /\ UNCHANGED <<ctlVars, faulty, hp, model, epoch, ckpt, events, ret, preCalls,
                   pre1>>

NextTrain ==
    \/ Preprocess
    \/ TrainBegin
    \/ TrainEpoch
    \/ TrainDisplay
    \/ TrainReturn
    \/ TrainFail

\* One training job: a new model, any options; the controller stands by.
InitTrainer ==
    /\ CtlInit
    /\ cfg = [n_iter |-> 0, init_model |-> TRUE, systems_train |-> "given",
              scf_input |-> "False"]
    /\ share = {}
    /\ faulty = TRUE
    /\ hp \in HyperParams
    /\ TrainerFresh

SpecTrain == InitTrainer /\ [][NextTrain]_vars

----------------------------------------------------------------------------
(* Vocabulary of the properties, written without reference to PlanOf *)

M == "main"

Has(st) == st \in Range(record)

Called(p, f) == f \in Range(calls[p])

IsPrefix(s, t) == Len(s) <= Len(t) /\ s = SubSeq(t, 1, Len(s))

Tail2(s, k) == SubSeq(s, k + 1, Len(s))

\* Number of stages before the first numbered iteration.
InitStages == IF cfg.init_model THEN 0 ELSE 2

\* The k-th stage of a plan with the init iteration (if any) first and the
\* numbered iterations 0, 1, 2, ... after it, scf before train.
NthStage(k) ==
    IF k <= InitStages
    THEN <<"init", 0, IF k = 1 THEN "scf" ELSE "train">>
    ELSE <<"iter", (k - InitStages - 1) \div 2,
           IF (k - InitStages) % 2 = 1 THEN "scf" ELSE "train">>

\* The stage sequence with `iters` numbered iterations.
Stages(iters) == [k \in 1 .. (InitStages + 2 * iters) |-> NthStage(k)]

\* n_iter numbered iterations: 0 .. n_iter - 1.
Expected == Stages(cfg.n_iter)

\* n_iter + 1 numbered iterations: 0 .. n_iter.
Inclusive == Stages(cfg.n_iter + 1)

FolderName(i) ==
    CASE i = 0 -> <<"iter", ".", "0", "0">>
      [] i = 1 -> <<"iter", ".", "0", "1">>
      [] i = 2 -> <<"iter", ".", "0", "2">>
      [] i = 3 -> <<"iter", ".", "0", "3">>
      [] i = 4 -> <<"iter", ".", "0", "4">>
      [] OTHER -> <<"iter", ".", "?", "?">>

\* The directories of `iters` numbered iterations (and of iter.init).
Layout(iters) ==
    {<<f, sub>> :
        f \in {FolderName(i) : i \in 0 .. (iters - 1)}
              \cup (IF cfg.init_model THEN {} ELSE {<<"iter", ".", "init">>}),
        sub \in {"00.scf", "01.train"}}

----------------------------------------------------------------------------
(* C1 .. C10 *)

\* C1: in every reachable state (after failures, crashes and restarts, also
\* with n_iter changed between invocations) the record holds (i, train) only
\* if it holds (i, scf), and an entry of iteration i+1 only if it holds both
\* entries of iteration i; the init iteration counts as the one before 0.
C1_MonotonicRecord ==
    /\ \A i \in 0 .. MaxIter :
          Has(<<"iter", i, "train">>) => Has(<<"iter", i, "scf">>)
    /\ \A i \in 0 .. MaxIter :
          (Has(<<"iter", i + 1, "scf">>) \/ Has(<<"iter", i + 1, "train">>))
             => (Has(<<"iter", i, "scf">>) /\ Has(<<"iter", i, "train">>))
    /\ Has(<<"init", 0, "train">>) => Has(<<"init", 0, "scf">>)
    /\ (~cfg.init_model /\ (Has(<<"iter", 0, "scf">>) \/ Has(<<"iter", 0, "train">>)))
          => (Has(<<"init", 0, "scf">>) /\ Has(<<"init", 0, "train">>))

\* A restarted invocation, after a failed one, has recorded iteration 1.
C1_Witness ==
    /\ prevPc[M] \in {"error", "crashed"}
    /\ Called(M, "restart")
    /\ Has(<<"iter", 1, "train">>)
    /\ Len(executed[M]) >= 1

\* C2 as stated: a restart on a record holding the first k stages executes
\* exactly the stages k+1 .. last, the last being (n_iter, train).
C2_Original ==
    (/\ pc[M] = "done"
     /\ Called(M, "restart")
     /\ IsPrefix(recAtStart[M], Inclusive))
        => executed[M] = Tail2(Inclusive, Len(recAtStart[M]))

\* C2 amended: a restart on a record holding the first k stages executes
\* exactly the stages k+1 .. last in plan order and none of the first k, the
\* last stage being (n_iter - 1, train).
C2_ResumeAtNext ==
    (/\ Called(M, "restart")
     /\ IsPrefix(recAtStart[M], Expected))
        => /\ IsPrefix(executed[M], Tail2(Expected, Len(recAtStart[M])))
           /\ pc[M] = "done" => executed[M] = Tail2(Expected, Len(recAtStart[M]))

\* The scenario: RECORD holds (init, scf), (init, train), (0, scf); restart
\* has run to completion with n_iter = 2.
C2_Witness ==
    /\ pc[M] = "done"
    /\ Called(M, "restart")
    /\ cfg.n_iter = 2
    /\ recAtStart[M] = << <<"init", 0, "scf">>, <<"init", 0, "train">>,
                          <<"iter", 0, "scf">> >>
    /\ Len(executed[M]) = 3

\* C3: a stage failure halts the run with no entry for the failed stage, the
\* record being what it was after the last completed stage; the next
\* invocation restarts, executes the failed stage first and none recorded.
C3_FailureLeavesRecord ==
    /\ err[M] = "StageExecutionError"
          => /\ pc[M] = "error"
             /\ executed[M] /= <<>>
             /\ cur[M] = executed[M][Len(executed[M])]
             /\ ~Has(cur[M])
             /\ record = recAtStart[M] \o SubSeq(executed[M], 1, Len(executed[M]) - 1)
    /\ (prevPc[M] = "error" /\ prevCur[M] /= NoStage)
          => /\ ~Called(M, "run")
             /\ Range(executed[M]) \cap Range(recAtStart[M]) = {}
             /\ executed[M] /= <<>> => executed[M][1] = prevCur[M]

\* A train stage failed, and the next invocation has started a stage.
C3_Witness ==
    /\ prevPc[M] = "error"
    /\ prevCur[M] = <<"iter", 0, "train">>
    /\ executed[M] /= <<>>
    /\ recAtStart[M] /= <<>>

\* C4: main calls make_iterate first and then exactly one of restart and
\* run: restart iff RECORD existed when it was tested; once past the test
\* exactly one of them has been called.
C4_ExactlyOneEntry ==
    /\ calls[M] \in {<<>>, <<"make_iterate">>, <<"make_iterate", "restart">>,
                     <<"make_iterate", "run">>}
    /\ Len(calls[M]) = 2 => (calls[M][2] = "restart" <=> sawRecord[M])
    /\ pc[M] \in {"restart", "run", "loop", "exec", "append", "done"}
          => Len(calls[M]) = 2

\* main returned after calling restart on an existing RECORD.
C4_Witness ==
    /\ pc[M] = "done"
    /\ calls[M] = <<"make_iterate", "restart">>
    /\ sawRecord[M]

\* C5: an invocation that follows one that completed executes no stage and
\* leaves the record and the work directories as they were.
C5_IdempotentResume ==
    prevPc[M] = "done"
        => /\ executed[M] = <<>>
           /\ record = recAtStart[M]
           /\ dirs = dirsAtStart[M]
           /\ ~Called(M, "run")

\* The second invocation has itself completed, on a record of four stages.
C5_Witness ==
    /\ prevPc[M] = "done"
    /\ pc[M] = "done"
    /\ Called(M, "restart")
    /\ Len(record) >= 4

\* C6 as stated: a fresh failure-free run without init_model executes and
\* records (init, scf), (init, train), (0, scf), ..., (n_iter, train) and
\* creates iter.init, iter.00, ..., iter.<n_iter>.
C6_Original ==
    (pc[M] = "done" /\ Called(M, "run") /\ ~cfg.init_model)
        => /\ executed[M] = Inclusive
           /\ record = Inclusive
           /\ dirs = Layout(cfg.n_iter + 1)

\* C6 amended: such a run executes and records (init, scf), (init, train),
\* (0, scf), ..., (n_iter - 1, train), in that order, and creates exactly
\* iter.init, iter.00, ..., iter.<n_iter - 1>, each with 00.scf and 01.train
\* (for n_iter = 2: six stages and three iteration directories).
C6_FreshRunOrder ==
    (pc[M] = "done" /\ Called(M, "run") /\ ~cfg.init_model)
        => /\ executed[M] = Expected
           /\ record = Expected
           /\ Len(executed[M]) = 2 * cfg.n_iter + 2
           /\ dirs = Layout(cfg.n_iter)
           /\ Cardinality({d[1] : d \in dirs}) = cfg.n_iter + 1

\* The run with n_iter = 2 has completed: six stages, six stage directories.
C6_Witness ==
    /\ pc[M] = "done"
    /\ Called(M, "run")
    /\ ~cfg.init_model
    /\ cfg.n_iter = 2
    /\ Len(record) = 6
    /\ Cardinality(dirs) = 6

\* Numbered iterations among a sequence of stages.
IterationsOf(s) == {s[k][2] : k \in {j \in 1 .. Len(s) : s[j][1] = "iter"}}

\* C7: a failure-free run executes exactly n_iter numbered iterations, each
\* in a folder iter.XX of its own holding 00.scf and 01.train; with
\* n_iter = 0 it executes no numbered iteration.
C7_NIterIterations ==
    (pc[M] = "done" /\ Called(M, "run"))
        => /\ Cardinality(IterationsOf(executed[M])) = cfg.n_iter
           /\ cfg.n_iter = 0 => IterationsOf(executed[M]) = {}
           /\ \A i \in IterationsOf(executed[M]) :
                 /\ <<FolderName(i), "00.scf">> \in dirs
                 /\ <<FolderName(i), "01.train">> \in dirs
           /\ Cardinality({d[1] : d \in dirs} \ {<<"iter", ".", "init">>})
                 = cfg.n_iter

\* A completed run of two numbered iterations after a supplied init model.
C7_Witness ==
    /\ pc[M] = "done"
    /\ Called(M, "run")
    /\ cfg.init_model
    /\ cfg.n_iter = 2
    /\ Len(executed[M]) = 4

\* The record at the start of the invocation names a numbered iteration that
\* the configuration does not have.
BeyondPlan == \E k \in 1 .. Len(recAtStart[M]) :
                 recAtStart[M][k][1] = "iter" /\ recAtStart[M][k][2] >= cfg.n_iter

\* C8: restart on a record with an entry outside the iteration plan fails
\* with CorruptRecord, executes no stage and leaves RECORD as it was.
C8_CorruptRecord ==
    /\ (Called(M, "restart") /\ BeyondPlan /\ pc[M] \notin {"restart", "crashed"})
          => (pc[M] = "error" /\ err[M] = "CorruptRecord")
    /\ err[M] = "CorruptRecord"
          => /\ BeyondPlan
             /\ executed[M] = <<>>
             /\ record = recAtStart[M]
             /\ dirs = dirsAtStart[M]
             /\ recordFile

\* restart has refused a record that holds stages of iteration 1 while
\* n_iter is 1.
C8_Witness ==
    /\ err[M] = "CorruptRecord"
    /\ cfg.n_iter = 1
    /\ Has(<<"iter", 1, "train">>)

\* A file the build needs is absent from the share folder.
NeededFileAbsent ==
    \/ cfg.systems_train = "default" /\ "systems_train.raw" \notin share
    \/ cfg.scf_input = "True" /\ "scf_input.yaml" \notin share

\* C9: with a required file missing the build fails with FileNotFoundError
\* before any stage: neither run nor restart is entered, no stage runs, no
\* record entry is written.
C9_BuildFailsFirst ==
    /\ (NeededFileAbsent /\ calls[M] /= <<>>)
          => (pc[M] = "error" /\ err[M] = "FileNotFoundError")
    /\ err[M] = "FileNotFoundError"
          => /\ calls[M] = <<"make_iterate">>
             /\ executed[M] = <<>>
             /\ record = recAtStart[M]
             /\ dirs = dirsAtStart[M]
             /\ record = <<>> /\ ~recordFile

\* The command was re-run and the build failed again.
C9_Witness ==
    /\ err[M] = "FileNotFoundError"
    /\ prevPc[M] = "error"
    /\ cfg.n_iter = 2

\* C10: run, and restart on an empty record, executed to completion under
\* the same configuration, execute the same stage sequence and end with the
\* same record and directory layout.
C10_RunIsRestartOnEmpty ==
    (pc[M] = "done" /\ recAtStart[M] = <<>>)
        => /\ Called(M, "run") \/ Called(M, "restart")
           /\ executed[M] = Expected
           /\ record = Expected
           /\ dirs = Layout(cfg.n_iter)

\* restart found an empty RECORD and has executed the whole plan.
C10_Witness ==
    /\ pc[M] = "done"
    /\ Called(M, "restart")
    /\ recAtStart[M] = <<>>
    /\ Len(executed[M]) = 6

----------------------------------------------------------------------------
(* C14 .. C18: the controller under concurrency, crashes and restarts *)

NoDup(q) == \A i, j \in 1 .. Len(q) : q[i] = q[j] => i = j

\* The directory of a stage, by name.
DirName(st) ==
    << IF st[1] = "init" THEN <<"iter", ".", "init">> ELSE FolderName(st[2]),
       IF st[3] = "scf" THEN "00.scf" ELSE "01.train" >>

\* C14: no two controller processes ever execute a stage at the same time
\* against the same work directory.
C14_MutualExclusion ==
    \A p, q \in Procs : (p /= q) => ~(pc[p] = "exec" /\ pc[q] = "exec")

\* C15: a stage is executing only when the record holds every stage that
\* precedes it in plan order.
C15_StartsAfterPredecessors ==
    pc[M] \in {"exec", "append"}
        => \E k \in 1 .. Len(Expected) :
              /\ cur[M] = Expected[k]
              /\ \A j \in 1 .. (k - 1) : Has(Expected[j])

\* (1, scf) is executing in an invocation that follows a crash.
C15_Witness ==
    /\ pc[M] = "exec"
    /\ cur[M] = <<"iter", 1, "scf">>
    /\ prevPc[M] = "crashed"
    /\ recAtStart[M] /= <<>>

\* C16: every step leaves the record unchanged or extends it by exactly one
\* entry at its end.
C16_AppendOnly ==
    [][\/ record' = record
       \/ /\ Len(record') = Len(record) + 1
          /\ SubSeq(record', 1, Len(record)) = record]_vars

\* The record has grown over a failed invocation and a restart.
C16_Witness ==
    /\ prevPc[M] = "error"
    /\ Called(M, "restart")
    /\ Len(record) > Len(recAtStart[M])
    /\ Len(recAtStart[M]) >= 2

\* C17: each stage is recorded at most once; a recorded stage is never
\* executed again; a stage whose directory an earlier attempt left behind is
\* executed again only if that attempt was not recorded, as the first stage
\* of the invocation, and in that same directory.
C17_AtMostOnce ==
    /\ NoDup(record)
    /\ NoDup(executed[M])
    /\ pc[M] = "exec" => ~Has(cur[M])
    /\ Range(executed[M]) \cap Range(recAtStart[M]) = {}
    /\ \A k \in 1 .. Len(executed[M]) :
          /\ DirName(executed[M][k]) \in dirs
          /\ DirName(executed[M][k]) \in dirsAtStart[M]
                => /\ k = 1
                   /\ prevPc[M] /= "done"
                   /\ executed[M][k] \notin Range(recAtStart[M])

\* A stage that failed before is being executed again, in its old directory.
C17_Witness ==
    /\ pc[M] = "exec"
    /\ prevPc[M] = "error"
    /\ cur[M] = prevCur[M]
    /\ DirName(cur[M]) \in dirsAtStart[M]
    /\ dirs = dirsAtStart[M]

InitScf == <<"init", 0, "scf">>
InitTrain == <<"init", 0, "train">>

\* C18: without init_model the init stages are executed and recorded, scf
\* then train, before any numbered stage starts, and are skipped on restart
\* once recorded; with init_model they are neither executed nor recorded and
\* iter.init is not created.
C18_InitIteration ==
    /\ (~cfg.init_model /\ \E k \in 1 .. Len(executed[M]) : executed[M][k][1] = "iter")
          => /\ Len(record) >= 2
             /\ record[1] = InitScf
             /\ record[2] = InitTrain
    /\ (InitScf \in Range(executed[M]) /\ InitTrain \in Range(executed[M]))
          => (executed[M][1] = InitScf /\ executed[M][2] = InitTrain)
    /\ \A st \in {InitScf, InitTrain} :
          st \in Range(recAtStart[M]) => st \notin Range(executed[M])
    /\ cfg.init_model
          => /\ \A st \in {InitScf, InitTrain} :
                   st \notin Range(executed[M]) /\ ~Has(st)
             /\ \A d \in dirs : d[1] /= <<"iter", ".", "init">>

\* A restart has skipped the recorded init stages and run numbered ones.
C18_Witness ==
    /\ pc[M] = "done"
    /\ Called(M, "restart")
    /\ ~cfg.init_model
    /\ InitTrain \in Range(recAtStart[M])
    /\ executed[M] /= <<>>

----------------------------------------------------------------------------
(* C19: liveness under re-invocation *)

Complete == record = Expected

----------------------------------------------------------------------------
(* C11, C12, C13, C20: the Trainer *)

TrainDone == tpc = "done"

\* C11 as stated: train returns the model after the last optimization
\* epoch to its caller.
C11_Original == TrainDone => ret = <<"model", model>>

\* C11 amended: train returns no value (None); the model after the last
\* epoch is the object the caller passed in, updated in place by exactly
\* n_epoch epochs.  Nothing is returned before train ends.
C11_ReturnsNone ==
    /\ TrainDone => (ret = <<"None">> /\ model.steps = hp.n_epoch)
    /\ ~TrainDone => ret = <<"unset">>

\* A training of several epochs has returned.
C11_Witness ==
    /\ TrainDone
    /\ hp.n_epoch >= 2
    /\ model.steps = hp.n_epoch
    /\ ret /= <<"unset">>

\* e is a multiple of d, by multiplication.
Multiple(e, d) == \E k \in 1 .. e : e = k * d

\* The events of a kind logged for epoch e.
EventsOf(kind, e) ==
    {i \in DOMAIN events : events[i].kind = kind /\ events[i].epoch = e}

\* The epochs whose end-of-epoch work is over.
EpochsEnded == 1 .. (IF tpc = "display" THEN epoch - 1 ELSE epoch)

\* C12: for every epoch e in 1..n_epoch, the evaluation, the report and the
\* checkpoint write happen at the end of epoch e (once, on the model after e
\* epochs) if and only if e is a multiple of display_epoch, the write also
\* needing a non-empty ckpt_file; train runs exactly n_epoch epochs and stops.
C12_DisplaySchedule ==
    /\ \A e \in EpochsEnded :
          /\ EventsOf("eval", e) /= {} <=> Multiple(e, hp.display_epoch)
          /\ EventsOf("report", e) /= {} <=> Multiple(e, hp.display_epoch)
          /\ EventsOf("save", e) /= {}
                <=> (Multiple(e, hp.display_epoch) /\ hp.ckpt_file /= "")
          /\ \A k \in {"eval", "report", "save"} : Cardinality(EventsOf(k, e)) <= 1
    /\ \A i \in DOMAIN events :
          /\ events[i].epoch \in {0} \cup EpochsEnded
          /\ events[i].steps = events[i].epoch
    /\ epoch <= hp.n_epoch
    /\ model.steps = epoch
    /\ TrainDone => epoch = hp.n_epoch

\* A run of three epochs displayed every second epoch has returned: epoch 2
\* was evaluated, reported and saved, epochs 1 and 3 were not.
C12_Witness ==
    /\ TrainDone
    /\ hp.n_epoch = 3
    /\ hp.display_epoch = 2
    /\ hp.ckpt_file /= ""
    /\ EventsOf("save", 2) /= {}
    /\ EventsOf("eval", 3) = {}

Normalization(m) == <<m.shift, m.scale>>

Prefit(m) == <<m.weight, m.bias>>

\* C13: a second call of preprocess on the same model, with the same toggles
\* and a reader returning the same statistics, leaves the normalization
\* (shift, scale) and the prefit layer (weight, bias) as the first call left
\* them.
C13_PreprocessIdempotent ==
    preCalls >= 2
        => /\ Normalization(model) = Normalization(pre1)
           /\ Prefit(model) = Prefit(pre1)

\* preprocess was called twice with every toggle on, on a model whose
\* normalization the first call changed.
C13_Witness ==
    /\ preCalls = 2
    /\ hp.preshift /\ hp.prescale /\ hp.prescale_sqrt /\ hp.prefit
    /\ hp.prescale_clip /= 0
    /\ Normalization(pre1) /= Normalization(LoadedModel)
    /\ Normalization(pre1) /= Normalization(NewModel)

\* C20: whenever train completes with a non-empty ckpt_file, n_epoch >= 1
\* and display_epoch >= 1, a checkpoint has been written and the last one
\* holds the model after the final epoch n_epoch.
C20_LastCheckpointFinal ==
    (TrainDone /\ hp.ckpt_file /= "" /\ hp.n_epoch >= 1 /\ hp.display_epoch >= 1)
        => /\ ckpt /= <<>>
           /\ ckpt[1].steps = hp.n_epoch

====
